---- MODULE Spec2Model ----
(***************************************************************************)
(* Model of the validation pipeline of src/src/extension.ts: the grammar   *)
(* store, the event-driven validation run (parse), the schematron stage    *)
(* (doSchematronValidation), the path resolver (processXML) and the        *)
(* scheduler (doValidation) with its in-flight list.                       *)
(***************************************************************************)
EXTENDS Integers, Sequences, FiniteSets, TLC

\* ------------------------------------------------------------------------
\* Program constants (extension.ts:10-13)
ERR_VALID == "ERR_VALID"
ERR_WELLFORM == "ERR_WELLFORM"
ERR_SCHEMA == "ERR_SCHEMA"
NO_ERR == "NO_ERR"

\* ------------------------------------------------------------------------
\* Bounds of the model
MaxCalls == 2        \* doValidation() calls explored, any editor activity
MaxCacheCalls == 3   \* doValidation() calls explored, one document edited
MaxSwitchCalls == 3  \* doValidation() calls explored, one validation at a time

\* Universe of the model: documents, schema references, absent values
Docs == {"d1", "d2"}
Refs == {"r1", "r2"}
NoEditor == "noEditor"       \* vscode.window.activeTextEditor is undefined
NoRef == "noRef"             \* locateSchema() finds no schema URL
Undef == "undefined"         \* a JavaScript undefined / null value
NoThrow == "none"            \* no exception thrown so far

\* ------------------------------------------------------------------------
\* Documents as the tokenizer (saxes) presents them: the text lines, the
\* token events with the parser position (parser.line, parser.column) at the
\* time of the event, and the answers of the validation automaton (walker)
\* to the events fired for that token.  For a start tag, col is parser.column
\* at the opentag event (the characters read on the line, the '>' included)
\* and scol is parser.column at the opentagstart event, which the tokenizer
\* emits once it has read the character that ends the tag name.
Open(line, scol, col, name, attrs, eEnter, eLeave) ==
  [k |-> "open", line |-> line, scol |-> scol, col |-> col, name |-> name,
   uri |-> "", local |-> name, attrs |-> attrs,
   eEnter |-> eEnter, eLeave |-> eLeave]
\* a start tag of an element in namespace uri
OpenNS(line, scol, col, name, uri, attrs, eEnter, eLeave) ==
  [Open(line, scol, col, name, attrs, eEnter, eLeave) EXCEPT !.uri = uri]
Txt(line, col, text) == [k |-> "text", line |-> line, col |-> col, text |-> text]
Close(line, col, eEnd) == [k |-> "close", line |-> line, col |-> col, eEnd |-> eEnd]
Doctype(line, col, items) ==
  [k |-> "doctype", line |-> line, col |-> col, items |-> items]
Fail(line, col) == [k |-> "fail", line |-> line, col |-> col]

\* an item of the cleaned doctype text: an <!ENTITY name "value"> declaration
\* or text the entity pattern does not match
Entity(name, value) == [entity |-> TRUE, name |-> name, value |-> value]
Junk == [entity |-> FALSE, name |-> "", value |-> ""]

\* a line of text is a sequence of one-character strings
Texts == <<
  \* 1: <a>t</a>                      valid
  [lines |-> << <<"<","a",">","t","<","/","a",">">> >>,
   tokens |-> << Open(1, 3, 3, "a", <<>>, 0, 0), Txt(1, 5, "t"), Close(1, 8, 0) >>,
   endErrs |-> 0],
  \* 2: <a><b/></a>                   the automaton rejects b and the end of a
  [lines |-> << <<"<","a",">","<","b","/",">","<","/","a",">">> >>,
   tokens |-> << Open(1, 3, 3, "a", <<>>, 0, 0), Open(1, 6, 7, "b", <<>>, 1, 0),
                 Close(1, 7, 0), Close(1, 11, 1) >>,
   endErrs |-> 0],
  \* 3: <a><b>                        the automaton rejects b, then unclosed tag
  [lines |-> << <<"<","a",">","<","b",">">> >>,
   tokens |-> << Open(1, 3, 3, "a", <<>>, 0, 0), Open(1, 6, 6, "b", <<>>, 1, 0),
                 Fail(1, 6) >>,
   endErrs |-> 0],
  \* 4: <a/>                          walker.end() returns one error
  [lines |-> << <<"<","a","/",">">> >>,
   tokens |-> << Open(1, 3, 4, "a", <<>>, 0, 0), Close(1, 4, 0) >>,
   endErrs |-> 1],
  \* 5: <!DOCTYPE a [<!ELEMENT a ANY>]><a/>   doctype the scanner rejects
  [lines |-> << <<"<","!","D"," ","a"," ","[","<","!","E",">","]",">","<","a","/",">">> >>,
   tokens |-> << Doctype(1, 13, <<Junk>>), Open(1, 16, 17, "a", <<>>, 0, 0),
                 Close(1, 17, 0) >>,
   endErrs |-> 0]
>>
TextIds == 1..Len(Texts)

\* walker.fireEvent("text", [buf]): the automaton's answer to a text node
BadTexts == {}
TextErrs(buf) == IF buf \in BadTexts THEN 1 ELSE 0

\* ------------------------------------------------------------------------
\* Diagnostics: vscode.Diagnostic(new vscode.Range(sl, sc, el, ec), message)
Diagnostic(sl, sc, el, ec, msg) ==
  [sl |-> sl, sc |-> sc, el |-> el, ec |-> ec, msg |-> msg]

Min(a, b) == IF a < b THEN a ELSE b

\* extension.ts:188-193: column of the nearest '<' at or before 0-based
\* column i of lineText, 0 when there is none
RECURSIVE ScanStart(_, _)
ScanStart(lineText, i) ==
  IF i < 0 THEN 0
  ELSE IF lineText[i + 1] = "<" THEN i
  ELSE ScanStart(lineText, i - 1)

\* ------------------------------------------------------------------------
\* State of one parse() call while the tokenizer runs (locals of parse)

\* parser.ENTITIES of a new SaxesParser: a name-to-value table that holds the
\* predefined entities of XML (amp stands for amp, lt, gt, quot and apos)
PredefinedEntities == {[name |-> "amp", value |-> "&"]}
InitParse ==
  [error |-> NO_ERR, errorCount |-> 0, diagnostics |-> <<>>,
   tagStack |-> <<>>, textBuf |-> "", contexts |-> <<>>,
   ENTITIES |-> PredefinedEntities,
   events |-> <<>>, thrown |-> NoThrow, line |-> 1, col |-> 0]

Throw(ps, what, tok) ==
  [ps EXCEPT !.thrown = what, !.line = tok.line, !.col = tok.col]

RECURSIVE PushN(_, _, _)
PushN(s, d, n) == IF n = 0 THEN s ELSE PushN(Append(s, d), d, n - 1)

\* extension.ts:177-197: the range of an automaton error, from the nearest
\* '<' before the parser's column on its line to that column
ErrorDiagnostic(tok, lineText) ==
  Diagnostic(tok.line - 1,
             ScanStart(lineText, Min(tok.col - 1, Len(lineText) - 1)),
             tok.line - 1, tok.col, "automaton")

\* extension.ts:176-210: one diagnostic per error; lineAt() throws for a line
\* the open document does not have
LocateErrors(ps, n, tok, curLines) ==
  IF tok.line - 1 >= Len(curLines)
  THEN Throw(ps, "lineAt", tok)
  ELSE [ps EXCEPT !.diagnostics =
                    PushN(@, ErrorDiagnostic(tok, curLines[tok.line]), n)]

\* extension.ts:172-175
CountErrors(ps, n) ==
  [ps EXCEPT !.error = ERR_VALID, !.errorCount = @ + n]

\* extension.ts:170-212.  n is the number of errors the walker returns for
\* the event, curLines the lines of the open document with uri xmlURI
FireEvent(ps, name, args, n, tok, curLines) ==
  IF ps.thrown # NoThrow THEN ps
  ELSE IF n = 0 THEN [ps EXCEPT !.events = Append(@, <<name, args>>)]
  ELSE LocateErrors(CountErrors([ps EXCEPT !.events = Append(@, <<name, args>>)],
                                n),
                    n, tok, curLines)

\* extension.ts:220
ClearTextBuf(ps) ==
  IF ps.thrown # NoThrow THEN ps ELSE [ps EXCEPT !.textBuf = ""]

\* extension.ts:217-222
FlushTextBuf(ps, tok, curLines) ==
  IF ps.thrown # NoThrow THEN ps
  ELSE IF ps.textBuf # ""
  THEN ClearTextBuf(FireEvent(ps, "text", <<ps.textBuf>>, TextErrs(ps.textBuf),
                              tok, curLines))
  ELSE ps

\* an attribute of a start tag (SaxesAttributeNS); key orders the names as
\* names.sort() does
Attr(key, name, prefix, local, value, eName, eValue) ==
  [key |-> key, name |-> name, prefix |-> prefix, local |-> local, uri |-> "",
   value |-> value, eName |-> eName, eValue |-> eValue]

\* extension.ts:231-243: namespace definitions of the sorted attributes
RECURSIVE NsDefinitions(_)
NsDefinitions(attrs) ==
  IF attrs = <<>> THEN <<>>
  ELSE IF Head(attrs).name = "xmlns"
  THEN <<(<<"", Head(attrs).value>>)>> \o NsDefinitions(Tail(attrs))
  ELSE IF Head(attrs).prefix = "xmlns"
  THEN <<(<<Head(attrs).local, Head(attrs).value>>)>>
         \o NsDefinitions(Tail(attrs))
  ELSE NsDefinitions(Tail(attrs))

\* extension.ts:231-243: the ordinary attributes, in sorted order
RECURSIVE OrdinaryAttrs(_)
OrdinaryAttrs(attrs) ==
  IF attrs = <<>> THEN <<>>
  ELSE IF Head(attrs).name = "xmlns" \/ Head(attrs).prefix = "xmlns"
  THEN OrdinaryAttrs(Tail(attrs))
  ELSE <<Head(attrs)>> \o OrdinaryAttrs(Tail(attrs))

\* extension.ts:230
SortedAttrs(tok) == SortSeq(tok.attrs, LAMBDA a, b : a.key < b.key)

\* extension.ts:244-249
EnterContext(ps, nsDefinitions) ==
  IF nsDefinitions # <<>> /\ ps.thrown = NoThrow
  THEN [ps EXCEPT !.contexts =
          Append(@, {nsDefinitions[i] : i \in DOMAIN nsDefinitions})]
  ELSE ps

\* extension.ts:251-253
RECURSIVE FireAttributeEvents(_, _, _, _)
FireAttributeEvents(ps, attrs, tok, curLines) ==
  IF attrs = <<>> THEN ps
  ELSE FireAttributeEvents(
         FireEvent(FireEvent(ps, "attributeName",
                             <<Head(attrs).uri, Head(attrs).local>>,
                             Head(attrs).eName, tok, curLines),
                   "attributeValue", <<Head(attrs).value>>,
                   Head(attrs).eValue, tok, curLines),
         Tail(attrs), tok, curLines)

\* extension.ts:255-259
PushTag(ps, tok, hasContext) ==
  IF ps.thrown # NoThrow THEN ps
  ELSE [ps EXCEPT !.tagStack =
          Append(@, [uri |-> tok.uri, local |-> tok.local,
                     hasContext |-> hasContext])]

\* extension.ts:225-260
OnOpenTag(ps, tok, curLines) ==
  PushTag(
    FireEvent(
      FireAttributeEvents(
        FireEvent(EnterContext(FlushTextBuf(ps, tok, curLines),
                               NsDefinitions(SortedAttrs(tok))),
                  "enterStartTag", <<tok.uri, tok.local>>, tok.eEnter,
                  tok, curLines),
        OrdinaryAttrs(SortedAttrs(tok)), tok, curLines),
      "leaveStartTag", <<>>, tok.eLeave, tok, curLines),
    tok, NsDefinitions(SortedAttrs(tok)) # <<>>)

\* extension.ts:262-264
OnText(ps, tok) == [ps EXCEPT !.textBuf = @ \o tok.text]

\* an end tag that leaves a context whether or not its start tag entered one
LeaveContextAlways(ps, hasContext) ==
  IF ps.thrown = NoThrow
  THEN [ps EXCEPT !.contexts = SubSeq(@, 1, Len(@) - 1)]
  ELSE ps

\* extension.ts:274-276
LeaveContext(ps, hasContext) ==
  IF ps.thrown = NoThrow /\ hasContext
  THEN [ps EXCEPT !.contexts = SubSeq(@, 1, Len(@) - 1)]
  ELSE ps

\* a closetag handler that takes the oldest frame (tagStack.shift())
PopTagFirst(ps, tok, curLines) ==
  IF ps.thrown # NoThrow THEN ps
  ELSE IF ps.tagStack = <<>>
  THEN Throw([ps EXCEPT !.errorCount = @ + 1], "stack underflow", tok)
  ELSE LeaveContext(
         FireEvent([ps EXCEPT !.tagStack = Tail(@)], "endTag",
                   <<ps.tagStack[1].uri, ps.tagStack[1].local>>,
                   tok.eEnd, tok, curLines),
         ps.tagStack[1].hasContext)

\* extension.ts:268-276: the closetag handler after the flush
PopTag(ps, tok, curLines) ==
  IF ps.thrown # NoThrow THEN ps
  ELSE IF ps.tagStack = <<>>
  THEN Throw([ps EXCEPT !.errorCount = @ + 1], "stack underflow", tok)
  ELSE LeaveContext(
         FireEvent([ps EXCEPT !.tagStack = SubSeq(@, 1, Len(@) - 1)], "endTag",
                   <<ps.tagStack[Len(ps.tagStack)].uri,
                     ps.tagStack[Len(ps.tagStack)].local>>,
                   tok.eEnd, tok, curLines),
         ps.tagStack[Len(ps.tagStack)].hasContext)

\* extension.ts:266-277
OnCloseTag(ps, tok, curLines) == PopTag(FlushTextBuf(ps, tok, curLines), tok, curLines)

\* a test for a truthy entry of the table
DefinedTruthy(entities, name) ==
  \E e \in entities : e.name = name /\ e.value # ""

\* extension.ts:299: parser.ENTITIES[name] !== undefined
Defined(entities, name) == \E e \in entities : e.name = name

\* extension.ts:302: parser.ENTITIES[name] = value
Assigned(entities, name, value) ==
  {e \in entities : e.name # name} \cup {[name |-> name, value |-> value]}

\* extension.ts:294-307: one turn of the scanner loop, on the item at the
\* head of the cleaned doctype text
ScanIteration(ps, item, tok) ==
  IF item.entity
  THEN IF Defined(ps.ENTITIES, item.name)
       THEN Throw(ps, "redefining entity", tok)
       ELSE [ps EXCEPT !.ENTITIES = Assigned(@, item.name, item.value)]
  ELSE Throw([ps EXCEPT !.errorCount = @ + 1],
             "unexpected construct in DOCTYPE", tok)

\* extension.ts:293-308: the entity scanner over the cleaned doctype text;
\* a matched declaration is sliced off (extension.ts:298)
RECURSIVE ScanEntities(_, _, _)
ScanEntities(ps, items, tok) ==
  IF items = <<>> \/ ps.thrown # NoThrow THEN ps
  ELSE ScanEntities(ScanIteration(ps, Head(items), tok), Tail(items), tok)

\* extension.ts:281-309
OnDoctype(ps, tok) == ScanEntities(ps, tok.items, tok)

\* extension.ts:311-321
OnEnd(ps, endErrs) ==
  IF endErrs # 0
  THEN [ps EXCEPT !.error = ERR_WELLFORM, !.errorCount = @ + endErrs]
  ELSE ps

\* the handler of one tokenizer event
OnToken(ps, tok, curLines) ==
  CASE tok.k = "open" -> OnOpenTag(ps, tok, curLines)
    [] tok.k = "text" -> OnText(ps, tok)
    [] tok.k = "close" -> OnCloseTag(ps, tok, curLines)
    [] tok.k = "doctype" -> OnDoctype(ps, tok)
    [] tok.k = "fail" -> Throw(ps, "tokenizer", tok)

\* extension.ts:323: parser.write(xmlSource).close() drives the handlers
\* token by token; a thrown error ends the pass
RECURSIVE Tokenize(_, _, _, _)
Tokenize(ps, text, i, curLines) ==
  IF ps.thrown # NoThrow THEN ps
  ELSE IF i > Len(text.tokens) THEN OnEnd(ps, text.endErrs)
  ELSE Tokenize(OnToken(ps, text.tokens[i], curLines), text, i + 1, curLines)

\* a catch clause that reports a zero-width range at the current column
CatchZeroWidth(ps) ==
  IF ps.thrown = NoThrow THEN ps
  ELSE [ps EXCEPT !.errorCount = @ + 1,
                  !.error = ERR_WELLFORM,
                  !.diagnostics = Append(@, Diagnostic(ps.line - 1, ps.col,
                                                       ps.line - 1, ps.col,
                                                       "tokenizer"))]

\* extension.ts:324-333: the catch clause of parse(), entered when the pass
\* has thrown
Catch(ps) ==
  IF ps.thrown = NoThrow THEN ps
  ELSE [ps EXCEPT !.errorCount = @ + 1,
                  !.error = ERR_WELLFORM,
                  !.diagnostics = Append(@, Diagnostic(ps.line - 1, 0,
                                                       ps.line - 1, ps.col,
                                                       "tokenizer"))]

\* extension.ts:161-344: parse() once the grammar is there.  The result is
\* the parse state; errorType is its error field
ParseBody(text, curLines) == Catch(Tokenize(InitParse, text, 1, curLines))

\* extension.ts:113-124: parseWithoutSchema() registers no handler, so only
\* the tokenizer itself can fail
RECURSIVE TokenizeOnly(_, _, _)
TokenizeOnly(ps, text, i) ==
  IF ps.thrown # NoThrow \/ i > Len(text.tokens) THEN ps
  ELSE TokenizeOnly(IF text.tokens[i].k = "fail"
                    THEN Throw(ps, "tokenizer", text.tokens[i]) ELSE ps,
                    text, i + 1)

\* extension.ts:116-124: the catch clause of parseWithoutSchema()
CatchWithoutSchema(ps) ==
  IF ps.thrown = NoThrow THEN ps
  ELSE [ps EXCEPT !.error = ERR_WELLFORM,
                  !.diagnostics = Append(@, Diagnostic(ps.line - 1, 0,
                                                       ps.line - 1, ps.col,
                                                       "tokenizer"))]

\* a schema-less pass that registers the handlers of parse()
ParseWithoutSchemaHandlers(text) == ParseBody(text, text.lines)

\* extension.ts:109-132 without the writes to diagnosticCollection
ParseWithoutSchemaBody(text) ==
  CatchWithoutSchema(TokenizeOnly(InitParse, text, 1))

\* ------------------------------------------------------------------------
\* Path resolver

\* a segment of the current path, `${name}[${index}]`; the segment '*'; and
\* the undefined lastTag
Seg(name, index) == <<name, index>>
Wildcard == <<"*", 0>>
NoTag == <<>>

\* extension.ts:350-363: a location /Q{ns}name[i]/... is a sequence of
\* qualified segments; the qualifier is dropped
ConvertCustomXPath(location) == [i \in DOMAIN location |-> location[i].seg]

\* extension.ts:367-375
MatchesXPath(currentPath, xpath) ==
  /\ Len(currentPath) = Len(xpath)
  /\ \A i \in DOMAIN xpath : xpath[i] = currentPath[i] \/ xpath[i] = Wildcard

\* extension.ts:406-411: the index of a start tag after lastTag
TagIndex(lastTag, name) ==
  IF lastTag # NoTag /\ lastTag[1] = name THEN lastTag[2] + 1 ELSE 1

\* extension.ts:414-420
Matched(st, tok, xpath) ==
  IF MatchesXPath(st.currentPath, xpath)
  THEN [st EXCEPT !.range = <<tok.line - 1, tok.scol - 1,
                              tok.line - 1, tok.col - 1>>]
  ELSE st

\* extension.ts:392-425: one tokenizer event of processXML
ResolverStep(st, tok, xpath) ==
  CASE tok.k = "open" ->
         Matched([st EXCEPT !.currentPath =
                    Append(@, Seg(tok.name, TagIndex(st.lastTag, tok.name)))],
                 tok, xpath)
    [] tok.k = "close" ->
         IF st.currentPath = <<>> THEN [st EXCEPT !.lastTag = NoTag]
         ELSE [st EXCEPT !.lastTag = st.currentPath[Len(st.currentPath)],
                         !.currentPath = SubSeq(@, 1, Len(@) - 1)]
    [] OTHER -> st

RECURSIVE ResolverPass(_, _, _, _)
ResolverPass(st, text, i, xpath) ==
  IF i > Len(text.tokens) THEN st
  ELSE ResolverPass(ResolverStep(st, text.tokens[i], xpath), text, i + 1, xpath)

\* extension.ts:379-433
ProcessXML(text, xpath) ==
  ResolverPass([currentPath |-> <<>>, lastTag |-> NoTag,
                range |-> <<-1, -1, -1, -1>>], text, 1, xpath).range

\* an error of the constraint engine: {location, text}
SchError(location) == [location |-> location, text |-> "schematron"]
RootLocation == << [q |-> "ns", seg |-> Seg("a", 1)] >>

HasFail(text) == \E i \in DOMAIN text.tokens : text.tokens[i].k = "fail"

\* what sch.validate(fileText) settles with under the rules loaded from
\* schema rules: a rejection for a text that is not well formed, otherwise
\* the errors the rules find in the text.  The rules of r1 constrain the root
\* element, those of r2 constrain nothing.
SchValidate(rules, t) ==
  IF HasFail(Texts[t]) THEN [rejected |-> TRUE, errors |-> <<>>]
  ELSE IF rules = "r1"
  THEN [rejected |-> FALSE, errors |-> <<SchError(RootLocation)>>]
  ELSE [rejected |-> FALSE, errors |-> <<>>]

\* extension.ts:469-472: the diagnostic of a constraint error at range rg
SchematronDiagnostic(rg, err) == Diagnostic(rg[1], rg[2], rg[3], rg[4], err.text)

\* extension.ts:467-473: the ranges of the constraint errors; new
\* vscode.Range() throws on a negative coordinate
SchematronDiagnostics(text, errors) ==
  [i \in DOMAIN errors |->
     SchematronDiagnostic(
       ProcessXML(text, ConvertCustomXPath(errors[i].location)), errors[i])]

RangeThrows(diags) ==
  \E i \in DOMAIN diags :
     diags[i].sl < 0 \/ diags[i].sc < 0 \/ diags[i].el < 0 \/ diags[i].ec < 0

\* ------------------------------------------------------------------------
\* State
VARIABLES
  active,                \* vscode.window.activeTextEditor: a document or NoEditor
  docText,               \* the text of each open document (index into Texts)
  docSchema,             \* the schema URL locateSchema() finds for each document
  grammarStore,          \* extension.ts:31
  validations,           \* extension.ts:33, the in-flight list (run ids)
  runs,                  \* the closures of every doValidation() call so far
  diagnosticCollection,  \* extension.ts:30, diagnostics presented per document
  schRNG,                \* the schema whose rules sch (extension.ts:32) holds
  calls,                 \* number of doValidation() calls so far
  lastSet,               \* the latest diagnosticCollection.set(): who, where, what
  parseInput,            \* one parse() call alone: the document it is given
  parsePos,              \* ... the next tokenizer event of that document
  parseState,            \* ... the locals of parse()
  cleaned,               \* extension.ts:287, the doctype text still to scan
  resolver               \* one processXML() call alone: its arguments and locals

\* the state of the extension, and the state of a function run on its own
progVars == <<active, docText, docSchema, grammarStore, validations, runs,
              diagnosticCollection, schRNG, calls, lastSet>>
unitVars == <<parseInput, parsePos, parseState, cleaned, resolver>>
vars == <<progVars, unitVars>>

Max3(a, b, c) ==
  IF a >= b /\ a >= c THEN a ELSE IF b >= c THEN b ELSE c
RunIds == 1..Max3(MaxCalls, MaxCacheCalls, MaxSwitchCalls)

\* a compiled grammar is identified by the schema it was compiled from
Grammar(ref) == ref

\* a StoredGrammar (extension.ts:21-24): no record yet, and the record {}
NoRecord == [exists |-> FALSE, rngURI |-> Undef, grammar |-> Undef]
EmptyRecord == [exists |-> TRUE, rngURI |-> Undef, grammar |-> Undef]

\* no diagnosticCollection.set() yet
NoSet == [set |-> FALSE, uri |-> Undef, diags |-> <<>>]

NoRun ==
  [kind |-> "none", pc |-> "idle", uri |-> Undef, schema |-> Undef,
   xmlSource |-> 0, isNewSchema |-> FALSE, compileCalled |-> FALSE,
   tree |-> Undef, errorType |-> Undef, errorCount |-> 0,
   diagnostics |-> <<>>, thrown |-> NoThrow, line |-> 0, col |-> 0,
   fileText |-> 0,
   schInvoked |-> FALSE, schRules |-> Undef, schDiagnostics |-> <<>>,
   presented |-> NoSet, aborted |-> FALSE, promise |-> "pending"]

Cleared == [d \in Docs |-> <<>>]      \* diagnosticCollection.clear()


\* extension.ts:45-94
LocateSchema(act, dText, dSchema) ==
  IF act = NoEditor \/ dSchema[act] = NoRef
  THEN [found |-> FALSE, schema |-> Undef, fileText |-> 0, xmlURI |-> Undef]
  ELSE [found |-> TRUE, schema |-> dSchema[act], fileText |-> dText[act],
        xmlURI |-> act]

\* the loop body without the removal
SpliceNothing(vs, index) == vs

\* extension.ts:443: validations.splice(index, 1), index counted from 0
Splice(vs, index) ==
  SubSeq(vs, 1, index) \o SubSeq(vs, index + 2, Len(vs))

\* extension.ts:441-444: the array iterator rereads the length at each step
RECURSIVE CancelLoop(_, _, _)
CancelLoop(vs, index, ab) ==
  IF index >= Len(vs) THEN [list |-> vs, aborted |-> ab]
  ELSE CancelLoop(Splice(vs, index), index + 1, ab \cup {vs[index + 1]})

\* extension.ts:503-506: the abort listener rejects the promise
Abort(rn) ==
  [rn EXCEPT !.aborted = TRUE,
             !.promise = IF @ = "pending" THEN "rejected" ELSE @]

\* extension.ts:523
Resolve(rn) == [rn EXCEPT !.promise = IF @ = "pending" THEN "resolved" ELSE @]

\* a switch whose ERR_WELLFORM case falls through to the default
CallsSchematronAlways(errorType) == TRUE

\* extension.ts:510-522: which results go on to the schematron stage
CallsSchematron(errorType) == errorType # ERR_WELLFORM

\* extension.ts:447-457: doSchematronValidation() up to the setTimeout
DoSchematronValidation(rn, act, dText) ==
  IF act = NoEditor THEN [rn EXCEPT !.pc = "done"]
  ELSE [rn EXCEPT !.fileText = dText[act], !.pc = "timer"]

\* extension.ts:509-524: the continuation of parse() in doValidation()
Dispatch(rn, act, dText) ==
  Resolve(IF CallsSchematron(rn.errorType)
          THEN DoSchematronValidation(rn, act, dText)
          ELSE [rn EXCEPT !.pc = "done"])

\* the values a step of a run leaves: its closure and the shared state
Outcome(rn, gs, dc, ls) == [run |-> rn, gs |-> gs, dc |-> dc, ls |-> ls]

\* extension.ts:335-338: diagnosticCollection after its clear() at line 167
\* and the set() of a non-empty diagnosticMap
Shown(uri, diagnostics) ==
  IF diagnostics # <<>> THEN [Cleared EXCEPT ![uri] = diagnostics] ELSE Cleared

\* the record of the latest set(): run r sets diagnostics when it has any
SetBy(ls, r, uri, diagnostics, latest) ==
  IF diagnostics # <<>>
  THEN [by |-> r, uri |-> uri, diags |-> diagnostics, latest |-> latest]
  ELSE ls

\* extension.ts:340-344: what parse() returns from the parse state ps
Returned(rn, tree, ps) ==
  [rn EXCEPT !.tree = tree, !.errorType = ps.error,
             !.errorCount = ps.errorCount, !.diagnostics = ps.diagnostics,
             !.thrown = ps.thrown, !.line = ps.line, !.col = ps.col]

\* extension.ts:151-344 and 509-524: the grammar is stored, the document is
\* parsed to the parse state ps, the diagnostics are shown and the result is
\* dispatched
Parsed(r, rn, tree, ps, gs, ls, latest, act, dText) ==
  Outcome(Dispatch(Returned(rn, tree, ps), act, dText),
          [gs EXCEPT ![rn.uri].grammar = tree],
          Shown(rn.uri, ps.diagnostics),
          SetBy(ls, r, rn.uri, ps.diagnostics, latest))

\* extension.ts:150-344 and 509-524: parse() from the point where the
\* grammar is known, then the dispatch on its result.  r is the run's id;
\* gs, dc, ls are the values of the shared state the step starts from.
AfterGrammar(r, rn, tree, gs, dc, ls, latest, act, dText) ==
  IF tree = Undef
  THEN Outcome(Dispatch([rn EXCEPT !.errorType = ERR_SCHEMA, !.errorCount = 1,
                                   !.diagnostics = <<>>], act, dText),
               gs, dc, ls)
  ELSE Parsed(r, rn, tree,
              ParseBody(Texts[rn.xmlSource], Texts[dText[rn.uri]].lines),
              gs, ls, latest, act, dText)

\* extension.ts:490-499: the record of the document after the comparison of
\* its stored schema reference with the located one
Stored(gs, xmlURI) == IF gs[xmlURI].exists THEN gs[xmlURI] ELSE EmptyRecord

IsNewSchema(gs, xmlURI, schema) == Stored(gs, xmlURI).rngURI # schema

Recorded(gs, xmlURI, schema) ==
  IF IsNewSchema(gs, xmlURI, schema)
  THEN [Stored(gs, xmlURI) EXCEPT !.grammar = Undef, !.rngURI = schema]
  ELSE Stored(gs, xmlURI)

\* extension.ts:140-149: the tree parse() starts with
CachedTree(gs, xmlURI, schema) ==
  IF ~IsNewSchema(gs, xmlURI, schema) THEN Recorded(gs, xmlURI, schema).grammar
  ELSE Undef

\* extension.ts:501-509: the closure of a call that located a schema
NewRun(schemaInfo, isNewSchema) ==
  [NoRun EXCEPT !.kind = "schema", !.uri = schemaInfo.xmlURI,
                !.schema = schemaInfo.schema,
                !.xmlSource = schemaInfo.fileText,
                !.isNewSchema = isNewSchema]

\* extension.ts:484-530: doValidation() for a located schema, up to the
\* first await of parse()
StartRun(c, schemaInfo, gs, tree, act, dText) ==
  IF tree = Undef
  THEN Outcome([NewRun(schemaInfo, IsNewSchema(grammarStore, schemaInfo.xmlURI,
                                               schemaInfo.schema))
                  EXCEPT !.pc = "compiling", !.compileCalled = TRUE],
               gs, diagnosticCollection, lastSet)
  ELSE AfterGrammar(c, NewRun(schemaInfo, FALSE), tree, gs,
                    diagnosticCollection, lastSet, c, act, dText)

\* extension.ts:533-551: the closure of a call that located no schema
NoSchemaRun(act, textId, ps) ==
  [NoRun EXCEPT !.kind = "noschema", !.pc = "done", !.uri = act,
                !.xmlSource = textId, !.errorType = ps.error,
                !.diagnostics = ps.diagnostics, !.thrown = ps.thrown,
                !.line = ps.line, !.col = ps.col, !.promise = "resolved"]

\* extension.ts:109-132, 539-549: parseWithoutSchema() with parse state ps
WithoutSchema(c, act, textId, ps) ==
  Outcome(NoSchemaRun(act, textId, ps), grammarStore,
          Shown(act, ps.diagnostics),
          SetBy(lastSet, c, act, ps.diagnostics, c))

\* extension.ts:484-551: the branch doValidation() takes
Branch(c, schemaInfo, act, dText) ==
  IF schemaInfo.found
  THEN StartRun(c, schemaInfo,
                [grammarStore EXCEPT ![schemaInfo.xmlURI] =
                   Recorded(grammarStore, schemaInfo.xmlURI, schemaInfo.schema)],
                CachedTree(grammarStore, schemaInfo.xmlURI, schemaInfo.schema),
                act, dText)
  ELSE IF act # NoEditor
  THEN WithoutSchema(c, act, dText[act],
                     ParseWithoutSchemaBody(Texts[dText[act]]))
  ELSE Outcome([NoRun EXCEPT !.kind = "noeditor", !.pc = "done",
                             !.promise = "resolved"],
               grammarStore, diagnosticCollection, lastSet)

\* extension.ts:438-445: the closures after the cancellation loop
Cancelled(loop) ==
  [r \in RunIds |-> IF r \in loop.aborted THEN Abort(runs[r]) ELSE runs[r]]

\* the shared state after a step of run r with outcome out
Commit(r, out, rs) ==
  /\ runs' = [rs EXCEPT ![r] = out.run]
  /\ grammarStore' = out.gs
  /\ diagnosticCollection' = out.dc
  /\ lastSet' = out.ls

\* extension.ts:527-530: the list after the loop and the push of run c
Pushed(list, c, out) ==
  IF out.run.kind = "schema" THEN Append(list, c) ELSE list

\* extension.ts:435-552: doValidation() with the editor state it reads
DoValidation(act, dText, dSchema) ==
  /\ calls' = calls + 1
  /\ \E out \in {Branch(calls + 1, LocateSchema(act, dText, dSchema), act, dText)},
        loop \in {CancelLoop(validations, 0, {})} :
       /\ Commit(calls + 1, out, Cancelled(loop))
       /\ validations' = Pushed(loop.list, calls + 1, out)
  /\ UNCHANGED schRNG

\* no function is run on its own
UnitIdle ==
  /\ parseInput = Texts[1]
  /\ parsePos = 0
  /\ parseState = InitParse
  /\ cleaned = <<>>
  /\ resolver = <<>>

\* ------------------------------------------------------------------------
\* Initial state: the extension is activated, nothing validated yet; the
\* first document holds any of the texts and any schema declaration
Init ==
  /\ active = "d1"
  /\ docText \in {f \in [Docs -> TextIds] : f["d2"] = 2}
  /\ docSchema \in {f \in [Docs -> Refs \cup {NoRef}] : f["d2"] = "r2"}
  /\ grammarStore = [d \in Docs |-> NoRecord]
  /\ validations = <<>>
  /\ runs = [r \in RunIds |-> NoRun]
  /\ diagnosticCollection = Cleared
  /\ schRNG = Undef
  /\ calls = 0
  /\ lastSet = [by |-> 0, uri |-> Undef, diags |-> <<>>, latest |-> 0]
  /\ UnitIdle

\* extension.ts:577-580, 626-630, 654-658: the validate command, a save, or
\* the activation of the extension
Validate(max) ==
  /\ calls < max
  /\ DoValidation(active, docText, docSchema)
  /\ UNCHANGED <<active, docText, docSchema, unitVars>>

\* extension.ts:632-636: the first document is edited; the edit changes its
\* text (one of texts) or the schema it declares
ChangeTextDocument(max, texts) ==
  /\ calls < max
  /\ \E t \in texts \cup {docText["d1"]}, s \in Refs \cup {NoRef} :
       /\ (t = docText["d1"]) # (s = docSchema["d1"])
       /\ docText' = [docText EXCEPT !["d1"] = t]
       /\ docSchema' = [docSchema EXCEPT !["d1"] = s]
       /\ DoValidation(active, docText', docSchema')
       /\ UNCHANGED <<active, unitVars>>

\* extension.ts:644-649: another editor, or none, becomes the active one
ChangeActiveTextEditor(max) ==
  \E e \in Docs \cup {NoEditor} :
    /\ e # active
    /\ e \in Docs => calls < max
    /\ active' = e
    /\ UNCHANGED <<docText, docSchema, unitVars>>
    /\ IF e \in Docs
       THEN DoValidation(e, docText, docSchema)
       ELSE UNCHANGED <<grammarStore, validations, runs, diagnosticCollection,
                        schRNG, calls, lastSet>>

\* extension.ts:96-107 and 148-159: grammarFromSource() settles for run r,
\* with a grammar (and the rules handed to sch) or with undefined
CompileDone(r) ==
  /\ runs[r].pc = "compiling"
  /\ \E ok \in BOOLEAN :
       /\ schRNG' = IF ok THEN runs[r].schema ELSE schRNG
       /\ \E out \in {AfterGrammar(r, runs[r],
                                   IF ok THEN Grammar(runs[r].schema) ELSE Undef,
                                   grammarStore, diagnosticCollection, lastSet,
                                   calls, active, docText)} :
            Commit(r, out, runs)
  /\ UNCHANGED <<active, docText, docSchema, validations, calls, unitVars>>

\* extension.ts:457-458: the 50 ms timer of run r fires, sch.validate() starts
TimerFire(r) ==
  /\ runs[r].pc = "timer"
  /\ runs' = [runs EXCEPT ![r].pc = "validating", ![r].schInvoked = TRUE,
                          ![r].schRules = schRNG]
  /\ UNCHANGED <<active, docText, docSchema, grammarStore, validations,
                 diagnosticCollection, schRNG, calls, lastSet, unitVars>>

\* extension.ts:459-481: the continuation of sch.validate() for the closure
\* rn of run r, with the constraint diagnostics of its errors
Presented(r, rn, outcome, schematronDiagnostics, schemaInfo) ==
  IF outcome.rejected
  THEN Outcome([rn EXCEPT !.pc = "done"], grammarStore, diagnosticCollection,
               lastSet)
  ELSE IF RangeThrows(schematronDiagnostics)
  THEN Outcome([rn EXCEPT !.pc = "done"], grammarStore, Cleared, lastSet)
  ELSE IF ~schemaInfo.found
  THEN Outcome([rn EXCEPT !.pc = "done",
                          !.schDiagnostics = schematronDiagnostics],
               grammarStore, Cleared, lastSet)
  ELSE Outcome([rn EXCEPT !.pc = "done",
                          !.schDiagnostics = schematronDiagnostics,
                          !.presented =
                             [set |-> TRUE, uri |-> schemaInfo.xmlURI,
                              diags |-> rn.diagnostics \o schematronDiagnostics]],
               grammarStore,
               [Cleared EXCEPT ![schemaInfo.xmlURI] =
                  rn.diagnostics \o schematronDiagnostics],
               [by |-> r, uri |-> schemaInfo.xmlURI,
                diags |-> rn.diagnostics \o schematronDiagnostics,
                latest |-> calls])

\* extension.ts:458-481: sch.validate() settles for run r
ValidateDone(r) ==
  /\ runs[r].pc = "validating"
  /\ \E outcome \in {SchValidate(runs[r].schRules, runs[r].fileText)} :
       \E out \in {Presented(r, runs[r], outcome,
                             SchematronDiagnostics(Texts[runs[r].fileText],
                                                   outcome.errors),
                             LocateSchema(active, docText, docSchema))} :
         Commit(r, out, runs)
  /\ UNCHANGED <<active, docText, docSchema, validations, schRNG, calls,
                 unitVars>>

\* the steps of the runs in flight
RunStep ==
  \/ \E r \in RunIds : CompileDone(r)
  \/ \E r \in RunIds : TimerFire(r)
  \/ \E r \in RunIds : ValidateDone(r)

Next ==
  \/ Validate(MaxCalls)
  \/ ChangeTextDocument(MaxCalls, TextIds)
  \/ ChangeActiveTextEditor(MaxCalls)
  \/ RunStep

Spec == Init /\ [][Next]_vars

\* One document, always active, whose schema declaration is edited: the
\* grammar store over a longer series of validations
InitCache ==
  /\ Init
  /\ docText["d1"] = 2
  /\ docSchema["d1"] = "r1"

NextCache ==
  \/ Validate(MaxCacheCalls)
  \/ ChangeTextDocument(MaxCacheCalls, {})
  \/ RunStep

SpecCache == InitCache /\ [][NextCache]_vars

\* Two documents with different schema declarations, validated one after the
\* other: the user validates or changes the editor only when no run is in
\* flight
Quiet == \A r \in RunIds : runs[r].pc \in {"idle", "done"}

InitSwitch ==
  /\ Init
  /\ docSchema["d1"] = "r1"

NextSwitch ==
  \/ Quiet /\ Validate(MaxSwitchCalls)
  \/ Quiet /\ ChangeActiveTextEditor(MaxSwitchCalls)
  \/ RunStep

SpecSwitch == InitSwitch /\ [][NextSwitch]_vars

\* ------------------------------------------------------------------------
\* One parse() call on its own (extension.ts:161-344), one tokenizer event at
\* a time

\* the extension itself is idle
ProgIdle ==
  /\ active = NoEditor
  /\ docText = [d \in Docs |-> 1]
  /\ docSchema = [d \in Docs |-> NoRef]
  /\ grammarStore = [d \in Docs |-> NoRecord]
  /\ validations = <<>>
  /\ runs = [r \in RunIds |-> NoRun]
  /\ diagnosticCollection = Cleared
  /\ schRNG = Undef
  /\ calls = 0
  /\ lastSet = [by |-> 0, uri |-> Undef, diags |-> <<>>, latest |-> 0]

\* documents with namespace declarations, text around comments and after the
\* root element, and a mismatched end tag
ParseInputs == <<
  \* 1: <a xmlns="u"><b>t</b></a>\n
  [lines |-> << <<"<","a"," ","x","m","l","n","s","=","\"","u","\"",">","<","b",">","t","<","/","b",">","<","/","a",">">>,
              <<>> >>,
   tokens |-> << OpenNS(1, 3, 13, "a", "u", <<Attr(1, "xmlns", "", "xmlns", "u", 0, 0)>>, 0, 0),
                OpenNS(1, 16, 16, "b", "u", <<>>, 0, 0),
                Txt(1, 18, "t"),
                Close(1, 21, 0),
                Close(1, 25, 0),
                Txt(2, 0, "\n") >>,
   endErrs |-> 0],
  \* 2: <a><b xmlns:p="v" x="1"/><b/></a>
  [lines |-> << <<"<","a",">","<","b"," ","x","m","l","n","s",":","p","=","\"","v","\""," ","x","=","\"","1","\"","/",">","<","b","/",">","<","/","a",">">> >>,
   tokens |-> << OpenNS(1, 3, 3, "a", "", <<>>, 0, 0),
                OpenNS(1, 6, 25, "b", "", <<Attr(2, "xmlns:p", "xmlns", "p", "v", 0, 0), Attr(1, "x", "", "x", "1", 0, 0)>>, 0, 0),
                Close(1, 25, 0),
                OpenNS(1, 28, 29, "b", "", <<>>, 0, 0),
                Close(1, 29, 0),
                Close(1, 33, 0) >>,
   endErrs |-> 0],
  \* 3: <a xmlns="u"><b xmlns="v">t<!--c-->s</b></a>
  [lines |-> << <<"<","a"," ","x","m","l","n","s","=","\"","u","\"",">","<","b"," ","x","m","l","n","s","=","\"","v","\"",">","t","<","!","-","-","c","-","-",">","s","<","/","b",">","<","/","a",">">> >>,
   tokens |-> << OpenNS(1, 3, 13, "a", "u", <<Attr(1, "xmlns", "", "xmlns", "u", 0, 0)>>, 0, 0),
                OpenNS(1, 16, 26, "b", "v", <<Attr(1, "xmlns", "", "xmlns", "v", 0, 0)>>, 0, 0),
                Txt(1, 28, "t"),
                Txt(1, 37, "s"),
                Close(1, 40, 0),
                Close(1, 44, 0) >>,
   endErrs |-> 0],
  \* 4: <a><b></a>
  [lines |-> << <<"<","a",">","<","b",">","<","/","a",">">> >>,
   tokens |-> << OpenNS(1, 3, 3, "a", "", <<>>, 0, 0),
                OpenNS(1, 6, 6, "b", "", <<>>, 0, 0),
                Close(1, 10, 0),
                Fail(1, 10) >>,
   endErrs |-> 0],
  Texts[4],
  Texts[5]
>>

\* the start tags and end tags of a document
Tags(text) ==
  {i \in DOMAIN text.tokens : text.tokens[i].k \in {"open", "close"}}

\* the document with an automaton that rejects the tags at the positions in
\* rejected (walker.fireEvent() returns one error for them)
Rejecting(text, rejected) ==
  [text EXCEPT !.tokens =
     [i \in DOMAIN text.tokens |->
        IF i \in rejected /\ text.tokens[i].k = "open"
        THEN [text.tokens[i] EXCEPT !.eEnter = 1]
        ELSE IF i \in rejected /\ text.tokens[i].k = "close"
        THEN [text.tokens[i] EXCEPT !.eEnd = 1]
        ELSE text.tokens[i]]]

InitParser ==
  /\ ProgIdle
  /\ parseInput \in UNION {{Rejecting(ParseInputs[d], rejected) :
                              rejected \in SUBSET Tags(ParseInputs[d])} :
                           d \in DOMAIN ParseInputs}
  /\ parsePos = 1
  /\ parseState = InitParse
  /\ cleaned = <<>>
  /\ resolver = <<>>

\* the tokenizer's next event is of kind k
NextToken(k) ==
  /\ parsePos \in DOMAIN parseInput.tokens
  /\ parseState.thrown = NoThrow
  /\ parseInput.tokens[parsePos].k = k

\* extension.ts:225-333: the handler of the tokenizer's next event runs, and
\* the catch clause when the handler or the tokenizer throws
Handled ==
  /\ parseState' = Catch(OnToken(parseState, parseInput.tokens[parsePos],
                                 parseInput.lines))
  /\ parsePos' = parsePos + 1
  /\ UNCHANGED <<progVars, parseInput, cleaned, resolver>>

\* extension.ts:225-260
ParseOpenTag ==
  /\ NextToken("open")
  /\ Handled

\* extension.ts:262-264
ParseText ==
  /\ NextToken("text")
  /\ Handled

\* extension.ts:266-277
ParseCloseTag ==
  /\ NextToken("close")
  /\ Handled

\* extension.ts:281-309
ParseDoctype ==
  /\ NextToken("doctype")
  /\ Handled

\* extension.ts:323-333: the tokenizer itself throws
ParseFail ==
  /\ NextToken("fail")
  /\ Handled

\* extension.ts:311-321: the end event, after the last token
ParseEnd ==
  /\ parsePos = Len(parseInput.tokens) + 1
  /\ parseState.thrown = NoThrow
  /\ parseState' = OnEnd(parseState, parseInput.endErrs)
  /\ parsePos' = parsePos + 1
  /\ UNCHANGED <<progVars, parseInput, cleaned, resolver>>

NextParser ==
  \/ ParseOpenTag
  \/ ParseText
  \/ ParseCloseTag
  \/ ParseDoctype
  \/ ParseFail
  \/ ParseEnd

SpecParser == InitParser /\ [][NextParser]_vars

\* ------------------------------------------------------------------------
\* One processXML() call on its own (extension.ts:379-433), one tokenizer
\* event at a time, and the range its caller builds (extension.ts:468-472)

\* documents with repeated element names
ResolverTexts == <<
  \* 1: <r><a/><b/><a/></r>
  [lines |-> << <<"<","r",">","<","a","/",">","<","b","/",">","<","a","/",">","<","/","r",">">> >>,
   tokens |-> << Open(1, 3, 3, "r", <<>>, 0, 0),
                Open(1, 6, 7, "a", <<>>, 0, 0),
                Close(1, 7, 0),
                Open(1, 10, 11, "b", <<>>, 0, 0),
                Close(1, 11, 0),
                Open(1, 14, 15, "a", <<>>, 0, 0),
                Close(1, 15, 0),
                Close(1, 19, 0) >>,
   endErrs |-> 0],
  \* 2: <r><a/><a/></r>
  [lines |-> << <<"<","r",">","<","a","/",">","<","a","/",">","<","/","r",">">> >>,
   tokens |-> << Open(1, 3, 3, "r", <<>>, 0, 0),
                Open(1, 6, 7, "a", <<>>, 0, 0),
                Close(1, 7, 0),
                Open(1, 10, 11, "a", <<>>, 0, 0),
                Close(1, 11, 0),
                Close(1, 15, 0) >>,
   endErrs |-> 0],
  \* 3: <r><a/><c><a/></c></r>
  [lines |-> << <<"<","r",">","<","a","/",">","<","c",">","<","a","/",">","<","/","c",">","<","/","r",">">> >>,
   tokens |-> << Open(1, 3, 3, "r", <<>>, 0, 0),
                Open(1, 6, 7, "a", <<>>, 0, 0),
                Close(1, 7, 0),
                Open(1, 10, 10, "c", <<>>, 0, 0),
                Open(1, 13, 14, "a", <<>>, 0, 0),
                Close(1, 14, 0),
                Close(1, 18, 0),
                Close(1, 22, 0) >>,
   endErrs |-> 0],
  \* 4: <r><a>t</a><b/><a/></r>
  [lines |-> << <<"<","r",">","<","a",">","t","<","/","a",">","<","b","/",">","<","a","/",">","<","/","r",">">> >>,
   tokens |-> << Open(1, 3, 3, "r", <<>>, 0, 0),
                Open(1, 6, 6, "a", <<>>, 0, 0),
                Txt(1, 8, "t"),
                Close(1, 11, 0),
                Open(1, 14, 15, "b", <<>>, 0, 0),
                Close(1, 15, 0),
                Open(1, 18, 19, "a", <<>>, 0, 0),
                Close(1, 19, 0),
                Close(1, 23, 0) >>,
   endErrs |-> 0],
  \* 5: <r><c><a/></c><c><a/><a/></c></r>
  [lines |-> << <<"<","r",">","<","c",">","<","a","/",">","<","/","c",">","<","c",">","<","a","/",">","<","a","/",">","<","/","c",">","<","/","r",">">> >>,
   tokens |-> << Open(1, 3, 3, "r", <<>>, 0, 0),
                Open(1, 6, 6, "c", <<>>, 0, 0),
                Open(1, 9, 10, "a", <<>>, 0, 0),
                Close(1, 10, 0),
                Close(1, 14, 0),
                Open(1, 17, 17, "c", <<>>, 0, 0),
                Open(1, 20, 21, "a", <<>>, 0, 0),
                Close(1, 21, 0),
                Open(1, 24, 25, "a", <<>>, 0, 0),
                Close(1, 25, 0),
                Close(1, 29, 0),
                Close(1, 33, 0) >>,
   endErrs |-> 0],
  \* 6: <r><a><a/></a><a/></r>
  [lines |-> << <<"<","r",">","<","a",">","<","a","/",">","<","/","a",">","<","a","/",">","<","/","r",">">> >>,
   tokens |-> << Open(1, 3, 3, "r", <<>>, 0, 0),
                Open(1, 6, 6, "a", <<>>, 0, 0),
                Open(1, 9, 10, "a", <<>>, 0, 0),
                Close(1, 10, 0),
                Close(1, 14, 0),
                Open(1, 17, 18, "a", <<>>, 0, 0),
                Close(1, 18, 0),
                Close(1, 22, 0) >>,
   endErrs |-> 0]
>>

\* the elements of a document as XPath numbers them: the segments of the
\* open elements, and for each of them and for the document node the number
\* of children of each name so far
ElementNames == {"r", "a", "b", "c"}
NoChildren == [name \in ElementNames |-> 0]

ChildSeg(stack, name) == Seg(name, stack[Len(stack)].children[name] + 1)

Entered(stack, name) ==
  Append([stack EXCEPT ![Len(stack)].children[name] = @ + 1],
         [seg |-> ChildSeg(stack, name), children |-> NoChildren])

PathOf(stack) == [i \in 1..(Len(stack) - 1) |-> stack[i + 1].seg]

RECURSIVE ElementPaths(_, _, _)
ElementPaths(tokens, i, stack) ==
  IF i > Len(tokens) THEN {}
  ELSE IF tokens[i].k = "open"
  THEN {PathOf(Entered(stack, tokens[i].name))}
         \cup ElementPaths(tokens, i + 1, Entered(stack, tokens[i].name))
  ELSE IF tokens[i].k = "close"
  THEN ElementPaths(tokens, i + 1, SubSeq(stack, 1, Len(stack) - 1))
  ELSE ElementPaths(tokens, i + 1, stack)

\* err.location of an error of the constraint engine: the path of an element
\* of the checked text, /Q{ns}name[i]/.../Q{ns}name[j]
Locations(text) ==
  {[i \in DOMAIN path |-> [q |-> "ns", seg |-> path[i]]] :
     path \in ElementPaths(text.tokens, 1,
                           <<[seg |-> NoTag, children |-> NoChildren]>>)}

NoRange == <<-1, -1, -1, -1>>     \* extension.ts:386-389

\* extension.ts:380-390: the locals of processXML(xml, xpathExpression); pos
\* is the next tokenizer event, first and matches record the range of the
\* first start tag that matched and the number of start tags that matched,
\* thrown whether new vscode.Range() threw in the caller
InitProcessXML(xml, xpath) ==
  [xml |-> xml, xpath |-> xpath, pos |-> 1, currentPath |-> <<>>,
   lastTag |-> NoTag, range |-> NoRange, first |-> NoRange, matches |-> 0,
   returned |-> FALSE, thrown |-> FALSE]

InitResolver ==
  /\ ProgIdle
  /\ parseInput = Texts[1]
  /\ parsePos = 0
  /\ parseState = InitParse
  /\ cleaned = <<>>
  /\ resolver \in UNION {{InitProcessXML(ResolverTexts[d],
                                           ConvertCustomXPath(location)) :
                              location \in Locations(ResolverTexts[d])} :
                           d \in DOMAIN ResolverTexts}

\* the tokenizer of processXML() emits an event of kind k next
ResolverToken(k) ==
  /\ resolver # <<>>
  /\ resolver.pos \in DOMAIN resolver.xml.tokens
  /\ resolver.xml.tokens[resolver.pos].k = k

\* what the pass after the event, st, adds to the record of the matches
Noted(st, tok) ==
  IF tok.k = "open" /\ MatchesXPath(st.currentPath, st.xpath)
  THEN [st EXCEPT !.matches = @ + 1,
                  !.first = IF st.matches = 0 THEN st.range ELSE @]
  ELSE st

\* extension.ts:392-425: the handlers of the event run
Resolved ==
  /\ resolver' = [Noted(ResolverStep(resolver,
                                     resolver.xml.tokens[resolver.pos],
                                     resolver.xpath),
                        resolver.xml.tokens[resolver.pos])
                    EXCEPT !.pos = @ + 1]
  /\ UNCHANGED <<progVars, parseInput, parsePos, parseState, cleaned>>

\* extension.ts:392-421
ResolveOpenTag ==
  /\ ResolverToken("open")
  /\ Resolved

\* extension.ts:423-425
ResolveCloseTag ==
  /\ ResolverToken("close")
  /\ Resolved

\* extension.ts:431: an event processXML() has no handler for
ResolveText ==
  /\ ResolverToken("text")
  /\ Resolved

\* extension.ts:432 and 469-472: processXML() returns the range and the
\* caller builds the diagnostic of the error from it
ResolveReturn ==
  /\ resolver # <<>>
  /\ resolver.pos = Len(resolver.xml.tokens) + 1
  /\ ~resolver.returned
  /\ resolver' =
       [resolver EXCEPT
          !.returned = TRUE,
          !.thrown = RangeThrows(<<SchematronDiagnostic(
                                     resolver.range,
                                     SchError(<<>>))>>)]
  /\ UNCHANGED <<progVars, parseInput, parsePos, parseState, cleaned>>

NextResolver ==
  \/ ResolveOpenTag
  \/ ResolveCloseTag
  \/ ResolveText
  \/ ResolveReturn

SpecResolver == InitResolver /\ [][NextResolver]_vars

\* ------------------------------------------------------------------------
\* The doctype handler of parse() on its own (extension.ts:281-309), one turn
\* of its loop at a time

MaxItems == 3        \* declarations and other constructs in a doctype

\* what an internal subset is made of: entity declarations, with an empty or
\* a non-empty value, of two names and of a predefined name; anything else
Items ==
  {Entity(name, value) : name \in {"e1", "e2"}, value \in {"", "1"}}
    \cup {Entity("amp", "1"), Junk}

RECURSIVE Doctypes(_)
Doctypes(n) ==
  IF n = 0 THEN {<<>>}
  ELSE Doctypes(n - 1)
         \cup {Append(items, item) : items \in {d \in Doctypes(n - 1) :
                                                  Len(d) = n - 1},
                                     item \in Items}

\* a document that starts with a doctype of these items
DoctypeText(items) ==
  [lines |-> << <<>> >>, tokens |-> <<Doctype(1, Len(items) + 1, items)>>,
   endErrs |-> 0]

\* extension.ts:281-292: the handler is entered, the doctype text is cleaned
InitScanner ==
  /\ ProgIdle
  /\ parseInput \in {DoctypeText(items) : items \in Doctypes(MaxItems)}
  /\ parsePos = 1
  /\ parseState = InitParse
  /\ cleaned = parseInput.tokens[1].items
  /\ resolver = <<>>

\* extension.ts:293-308: one turn of the loop; a match is sliced off
ScanTurn ==
  /\ parsePos = 1
  /\ cleaned # <<>>
  /\ parseState.thrown = NoThrow
  /\ parseState' = ScanIteration(parseState, Head(cleaned),
                                 parseInput.tokens[1])
  /\ cleaned' = IF parseState'.thrown = NoThrow THEN Tail(cleaned) ELSE cleaned
  /\ UNCHANGED <<progVars, parseInput, parsePos, resolver>>

\* extension.ts:293, 309: cleaned.length is 0, the handler returns
ScanReturn ==
  /\ parsePos = 1
  /\ cleaned = <<>>
  /\ parseState.thrown = NoThrow
  /\ parsePos' = 2
  /\ UNCHANGED <<progVars, parseInput, parseState, cleaned, resolver>>

\* extension.ts:324-333: the error thrown in the loop reaches the catch clause
ScanCatch ==
  /\ parsePos = 1
  /\ parseState.thrown # NoThrow
  /\ parseState' = Catch(parseState)
  /\ parsePos' = 2
  /\ UNCHANGED <<progVars, parseInput, cleaned, resolver>>

NextScanner ==
  \/ ScanTurn
  \/ ScanReturn
  \/ ScanCatch

\* the handler runs to its end once entered: the tokenizer calls it
\* synchronously
SpecScanner == InitScanner /\ [][NextScanner]_vars /\ WF_vars(NextScanner)

\* ------------------------------------------------------------------------
\* Properties

Scheduled(r) == runs[r].kind = "schema"

\* r2 validates the document of r1 and no validation of that document from
\* r1 up to r2 had another schema reference
SameReference(r1, r2) ==
  /\ r1 < r2
  /\ Scheduled(r1) /\ Scheduled(r2)
  /\ runs[r1].uri = runs[r2].uri
  /\ \A q \in r1..r2 :
       Scheduled(q) /\ runs[q].uri = runs[r2].uri
         => runs[q].schema = runs[r2].schema

\* C1: diagnostics are only ever set by the request scheduled last: once a
\* later doValidation() call was made, an earlier run never writes its
\* diagnostics to diagnosticCollection.
C1_SupersededNeverPresented ==
  lastSet.by # 0 => lastSet.by = lastSet.latest

\* C2: of two validations of one document with the same, unchanged schema
\* reference, the later one never calls the grammar compiler when an
\* earlier one has called it.
C2_NoSecondCompile ==
  \A r1, r2 \in RunIds :
    SameReference(r1, r2) /\ runs[r1].compileCalled => ~runs[r2].compileCalled

\* C3: a validation that finds a changed schema reference calls the compiler,
\* and every validation works with a grammar compiled from its own schema
\* reference, never with one compiled from an earlier reference.
C3_OldGrammarNeverUsed ==
  \A r \in RunIds :
    Scheduled(r) =>
      /\ runs[r].isNewSchema => runs[r].compileCalled
      /\ runs[r].tree # Undef => runs[r].tree = Grammar(runs[r].schema)

\* C4: a validation scheduled after the compiler failed for the document's
\* schema reference, with that reference unchanged, does not call the
\* compiler.
C4_NoRetryAfterFailure ==
  [][\A r1, r2 \in RunIds :
       /\ runs[r2].kind = "none"
       /\ runs'[r2].kind = "schema"
       /\ runs[r1].errorType = ERR_SCHEMA
       /\ runs'[r1].uri = runs'[r2].uri
       /\ \A q \in r1..r2 :
            runs'[q].kind = "schema" /\ runs'[q].uri = runs'[r2].uri
              => runs'[q].schema = runs'[r2].schema
       => ~runs'[r2].compileCalled]_vars

\* C5: a run classified ERR_WELLFORM never reaches the schematron stage: no
\* timer, no sch.validate() call, no constraint diagnostics.
C5_MalformedSkipsConstraints ==
  \A r \in RunIds :
    runs[r].errorType = ERR_WELLFORM =>
      /\ runs[r].pc = "done"
      /\ ~runs[r].schInvoked
      /\ runs[r].fileText = 0
      /\ runs[r].schDiagnostics = <<>>

C5_Witness ==
  \E r \in RunIds :
    /\ Scheduled(r)
    /\ runs[r].errorType = ERR_WELLFORM
    /\ runs[r].thrown = "unexpected construct in DOCTYPE"
    /\ runs[r].pc = "done"

\* C6 as claimed: a run ended by a tokenizer failure reports exactly one
\* diagnostic, at the tokenizer's line and column.
C6_ExactlyOneDiagnostic ==
  \A r \in RunIds :
    Scheduled(r) /\ runs[r].thrown # NoThrow =>
      /\ Len(runs[r].diagnostics) = 1
      /\ runs[r].diagnostics[1].el = runs[r].line - 1
      /\ runs[r].diagnostics[1].ec = runs[r].col

\* C6 as amended: a run ended by a tokenizer failure appends exactly one
\* tokenizer diagnostic, from column 0 to the tokenizer's column on the
\* tokenizer's line, after the automaton diagnostics recorded before it.
C6_OneTokenizerDiagnosticAppended ==
  \A r \in RunIds :
    Scheduled(r) /\ runs[r].thrown # NoThrow =>
      LET d == runs[r].diagnostics
      IN /\ Len(d) >= 1
         /\ d[Len(d)] = Diagnostic(runs[r].line - 1, 0, runs[r].line - 1,
                                   runs[r].col, "tokenizer")
         /\ \A i \in 1..(Len(d) - 1) : d[i].msg = "automaton"

C6_Witness ==
  \E r \in RunIds :
    /\ Scheduled(r)
    /\ runs[r].thrown = "tokenizer"
    /\ Len(runs[r].diagnostics) = 2
    /\ runs[r].col > 0

\* C7: a run whose tokenizer reached the end without failing and whose
\* walker.end() returned errors is classified ERR_VALID and goes on to the
\* schematron stage.
C7_EndErrorsAreContentErrors ==
  \A r \in RunIds :
    /\ Scheduled(r)
    /\ runs[r].tree # Undef
    /\ runs[r].thrown = NoThrow
    /\ Texts[runs[r].xmlSource].endErrs > 0
    => /\ runs[r].errorType = ERR_VALID
       /\ CallsSchematron(runs[r].errorType)

\* C8: the run scheduled last, once completed with ERR_SCHEMA, ERR_VALID or
\* NO_ERR, has called sch.validate() and has presented, for its document,
\* its automaton diagnostics followed by the constraint diagnostics.
C8_ConstraintDiagnosticsAdded ==
  \A r \in RunIds :
    /\ r = calls
    /\ Scheduled(r)
    /\ runs[r].pc = "done"
    /\ runs[r].errorType \in {ERR_SCHEMA, ERR_VALID, NO_ERR}
    => /\ runs[r].schInvoked
       /\ runs[r].presented.set
       /\ runs[r].presented.uri = runs[r].uri
       /\ runs[r].presented.diags =
            runs[r].diagnostics \o runs[r].schDiagnostics

\* C9: a validation without schema reference is ERR_WELLFORM exactly when
\* the tokenizer fails; otherwise it is NO_ERR with no diagnostic and sets
\* none; and it never reaches the schematron stage.
C9_NoSchemaWellFormedness ==
  \A r \in RunIds :
    runs[r].kind = "noschema" =>
      LET failed == HasFail(Texts[runs[r].xmlSource])
      IN /\ runs[r].errorType = ERR_WELLFORM <=> failed
         /\ ~failed => /\ runs[r].errorType = NO_ERR
                       /\ runs[r].diagnostics = <<>>
                       /\ lastSet.by # r
         /\ failed => Len(runs[r].diagnostics) = 1
         /\ runs[r].pc = "done"
         /\ ~runs[r].schInvoked
         /\ runs[r].fileText = 0

C9_Witness ==
  \E r \in RunIds :
    /\ runs[r].kind = "noschema"
    /\ Texts[runs[r].xmlSource].tokens[1].k = "doctype"
    /\ runs[r].errorType = NO_ERR
    /\ diagnosticCollection = Cleared

\* C10: after every doValidation() call the in-flight list holds at most the
\* entry of that call, and every entry of an earlier call has been aborted
\* and removed; the list never has more than one entry.
C10_SingleFlight ==
  /\ Len(validations) <= 1
  /\ \A i \in DOMAIN validations : validations[i] = calls
  /\ \A r \in RunIds : Scheduled(r) /\ r < calls => runs[r].aborted

C10_Witness ==
  /\ calls = 2
  /\ validations = <<2>>
  /\ runs[1].aborted
  /\ runs[1].promise = "rejected"

\* the start tags among the first n tokens whose end tag is not among them,
\* outermost first
RECURSIVE OpenFrames(_, _)
OpenFrames(tokens, n) ==
  IF n = 0 THEN <<>>
  ELSE IF tokens[n].k = "open" THEN Append(OpenFrames(tokens, n - 1), n)
  ELSE IF tokens[n].k = "close"
  THEN SubSeq(OpenFrames(tokens, n - 1), 1, Len(OpenFrames(tokens, n - 1)) - 1)
  ELSE OpenFrames(tokens, n - 1)

\* the tokens of parseInput handled so far
Consumed == Min(parsePos - 1, Len(parseInput.tokens))

\* the pass has handled every token and the end event without throwing
Traversed ==
  /\ parsePos = Len(parseInput.tokens) + 2
  /\ parseState.thrown = NoThrow

\* the namespace declarations of a start tag
Declared(tok) ==
  {<<IF tok.attrs[i].name = "xmlns" THEN "" ELSE tok.attrs[i].local,
     tok.attrs[i].value>> :
     i \in {j \in DOMAIN tok.attrs :
              tok.attrs[j].name = "xmlns" \/ tok.attrs[j].prefix = "xmlns"}}

DeclaresScope(i) == Declared(parseInput.tokens[i]) # {}

\* C11: after every token of a pass that has not thrown, the namespace
\* scopes on the stack are exactly those of the open start tags that declare
\* xmlns or xmlns:* attributes, in nesting order (so a scope is pushed only
\* by such a tag and popped by its end tag, never below zero), and after the
\* full traversal the scope stack is empty.
C11_ScopesBalanced ==
  parsePos >= 1 /\ parseState.thrown = NoThrow =>
    /\ parseState.contexts =
         [j \in DOMAIN SelectSeq(OpenFrames(parseInput.tokens, Consumed),
                                 DeclaresScope) |->
            Declared(parseInput.tokens[
              SelectSeq(OpenFrames(parseInput.tokens, Consumed),
                        DeclaresScope)[j]])]
    /\ Traversed => parseState.contexts = <<>>

C11_Witness ==
  /\ Traversed
  /\ parseState.contexts = <<>>
  /\ \E i, j \in DOMAIN parseInput.tokens :
       /\ i < j
       /\ parseInput.tokens[i].k = "open" /\ DeclaresScope(i)
       /\ parseInput.tokens[j].k = "open" /\ DeclaresScope(j)
       /\ OpenFrames(parseInput.tokens, j) = <<i, j>>

\* C12: when start tags of the document match the path, processXML() returns
\* the range of the first of them in document order.
C12_FirstMatchReturned ==
  resolver # <<>> /\ resolver.returned /\ resolver.matches >= 1 =>
    resolver.range = resolver.first

\* C13: when no start tag of the document matches the path, the range the
\* caller gives to the diagnostic has no negative coordinate, so that
\* new vscode.Range() does not throw and the diagnostic is produced.
C13_NoMatchFallsBack ==
  resolver # <<>> /\ resolver.returned /\ resolver.matches = 0 =>
    /\ \A i \in 1..4 : resolver.range[i] >= 0
    /\ ~resolver.thrown

\* the items of the doctype the scanner was entered with, and those sliced
\* off so far
ScanItems == parseInput.tokens[1].items
Sliced == SubSeq(ScanItems, 1, Len(ScanItems) - Len(cleaned))

\* item i declares a name registered before it, or is no declaration
Offending(items, i) ==
  \/ ~items[i].entity
  \/ Defined(PredefinedEntities, items[i].name)
  \/ \E j \in 1..(i - 1) : items[j].entity /\ items[j].name = items[i].name

C14_Registered ==
  /\ \A e1, e2 \in parseState.ENTITIES : e1.name = e2.name => e1 = e2
  /\ parseState.ENTITIES =
       PredefinedEntities
         \cup {[name |-> Sliced[i].name, value |-> Sliced[i].value] :
                 i \in DOMAIN Sliced}
  /\ \A i \in DOMAIN Sliced : ~Offending(ScanItems, i)
  /\ parseState.thrown # NoThrow =>
       /\ cleaned # <<>>
       /\ Offending(ScanItems, Len(Sliced) + 1)
  /\ parsePos = 2 =>
       /\ parseState.thrown # NoThrow <=>
            \E i \in DOMAIN ScanItems : Offending(ScanItems, i)
       /\ parseState.error =
            IF parseState.thrown # NoThrow THEN ERR_WELLFORM ELSE NO_ERR
       /\ parseState.thrown = NoThrow => cleaned = <<>>

\* C14: the scanner registers each entity name at most once, with the value
\* of its first declaration; a declaration of a registered name, or an item
\* that is no entity declaration, ends the run with ERR_WELLFORM and
\* registers nothing; and the scanner loop ends for every doctype.
C14_ScannerRejectsAndTerminates ==
  /\ []C14_Registered
  /\ <>(parsePos = 2)

C14_Witness ==
  /\ parsePos = 2
  /\ parseState.thrown = "redefining entity"
  /\ parseState.error = ERR_WELLFORM
  /\ Len(ScanItems) >= 2
  /\ ScanItems[1].entity /\ ScanItems[2].entity
  /\ ScanItems[1].name = ScanItems[2].name
  /\ ScanItems[1].value = ""
  /\ parseState.ENTITIES =
       PredefinedEntities \cup {[name |-> ScanItems[1].name, value |-> ""]}

\* C15: a run that was aborted while it awaited the grammar compiler, when
\* it resumes, ends there: it does not go on to the schematron stage and
\* writes nothing to diagnosticCollection.
C15_CancelledRunWritesNothing ==
  [][\A r \in RunIds :
       /\ runs[r].aborted
       /\ runs[r].pc = "compiling"
       /\ runs'[r].pc # "compiling"
       => /\ runs'[r].pc = "done"
          /\ ~runs'[r].schInvoked
          /\ diagnosticCollection' = diagnosticCollection
          /\ lastSet' = lastSet]_vars

\* a compilation for document d is pending
Compiling(d) ==
  \E r \in RunIds : Scheduled(r) /\ runs[r].uri = d /\ runs[r].pc = "compiling"

\* C16: whenever no compilation for a document is pending, the grammar
\* cached in its record, if any, was compiled from the schema reference
\* stored in the record.
C16_CachedGrammarMatchesReference ==
  \A d \in Docs :
    /\ grammarStore[d].exists
    /\ grammarStore[d].grammar # Undef
    /\ ~Compiling(d)
    => grammarStore[d].grammar = Grammar(grammarStore[d].rngURI)

\* C17: whenever sch.validate() is called for a run that has a grammar, the
\* rules sch holds were loaded from the schema reference of the run's
\* document.
C17_RulesOfOwnSchema ==
  \A r \in RunIds :
    Scheduled(r) /\ runs[r].schInvoked /\ runs[r].tree # Undef =>
      runs[r].schRules = runs[r].schema

\* a run of document d takes a step
Steps(d) ==
  \E r \in RunIds : runs'[r].uri = d /\ runs'[r].pc # runs[r].pc

\* C18: the diagnostics a run sets are set under the identity of the run's
\* own document, and a step changes the diagnostics presented for a
\* document only when it is a step of a run of that document.
C18_OwnDocumentOnly ==
  /\ [](lastSet.by # 0 => lastSet.uri = runs[lastSet.by].uri)
  /\ [][\A d \in Docs :
          diagnosticCollection'[d] # diagnosticCollection[d] => Steps(d)]_vars

\* the frame the handlers record for the start tag at position i
FrameOf(i) ==
  [uri |-> parseInput.tokens[i].uri, local |-> parseInput.tokens[i].local,
   hasContext |-> DeclaresScope(i)]

\* the start tags open before the token handled last
OpenBefore == OpenFrames(parseInput.tokens, Consumed - 1)

\* C19: after every token of a pass that has not thrown, tagStack holds one
\* frame for each open start tag, in nesting order, with the tag's namespace
\* URI and local name; the endTag event fired for an end tag carries the URI
\* and local name of the innermost open start tag; and a pass ended by a
\* stack underflow is ERR_WELLFORM and has fired no endTag event for it.
C19_FramesFollowNesting ==
  /\ parsePos >= 1 /\ parseState.thrown = NoThrow =>
       /\ parseState.tagStack =
            [j \in DOMAIN OpenFrames(parseInput.tokens, Consumed) |->
               FrameOf(OpenFrames(parseInput.tokens, Consumed)[j])]
       /\ /\ Consumed >= 1
          /\ Consumed = parsePos - 1
          /\ parseInput.tokens[Consumed].k = "close"
          => /\ OpenBefore # <<>>
             /\ parseState.events[Len(parseState.events)] =
                  <<"endTag",
                    <<FrameOf(OpenBefore[Len(OpenBefore)]).uri,
                      FrameOf(OpenBefore[Len(OpenBefore)]).local>> >>
  /\ parsePos >= 1 /\ parseState.thrown = "stack underflow" =>
       /\ parseState.error = ERR_WELLFORM
       /\ OpenBefore = <<>>
       /\ \/ parseState.events = <<>>
          \/ parseState.events[Len(parseState.events)][1] # "endTag"

C19_Witness ==
  /\ parseState.thrown = NoThrow
  /\ Consumed = parsePos - 1
  /\ Consumed >= 3
  /\ parseInput.tokens[Consumed].k = "close"
  /\ Len(parseState.tagStack) = 1
  /\ parseState.tagStack[1].local = "a"
  /\ parseState.tagStack[1].uri = "u"
  /\ parseState.events[Len(parseState.events)] = <<"endTag", <<"v", "b">> >>

\* the text transitions due after the first n tokens: the text tokens since
\* the last tag, joined, are delivered before the next start tag or end tag
RECURSIVE Deliveries(_, _, _, _)
Deliveries(tokens, i, n, buf) ==
  IF i > n THEN <<>>
  ELSE IF tokens[i].k = "text"
  THEN Deliveries(tokens, i + 1, n, buf \o tokens[i].text)
  ELSE IF tokens[i].k \in {"open", "close"}
  THEN (IF buf # "" THEN <<buf>> ELSE <<>>) \o Deliveries(tokens, i + 1, n, "")
  ELSE Deliveries(tokens, i + 1, n, buf)

IsTextEvent(e) == e[1] = "text"

\* the text transitions the automaton was sent
TextEvents ==
  [j \in DOMAIN SelectSeq(parseState.events, IsTextEvent) |->
     SelectSeq(parseState.events, IsTextEvent)[j][2][1]]

\* the text transitions due before the start tags and end tags handled
TextBeforeTags ==
  parsePos >= 1 /\ parseState.thrown = NoThrow =>
    /\ TextEvents = Deliveries(parseInput.tokens, 1, Consumed, "")
    /\ Consumed >= 1 /\ parseInput.tokens[Consumed].k \in {"open", "close"}
       => parseState.textBuf = ""

\* C20: the text tokens between two tags are sent to the automaton as one
\* text event, right before the next start tag or end tag or before the end
\* of input is signalled: when walker.end() has been called, no text is left
\* in textBuf.
C20_TextDeliveredBeforeEnd ==
  /\ TextBeforeTags
  /\ Traversed => parseState.textBuf = ""

\* the index of a start tag after the sibling closed last under its parent
SiblingSeg(frames, name) ==
  Seg(name, TagIndex(frames[Len(frames)].last, name))

\* the open elements after the first n tokens, under a frame for the
\* document node: each with its segment and the segment of its child closed
\* last
RECURSIVE Siblings(_, _)
Siblings(tokens, n) ==
  IF n = 0 THEN <<[seg |-> NoTag, last |-> NoTag]>>
  ELSE IF tokens[n].k = "open"
  THEN Append(Siblings(tokens, n - 1),
              [seg |-> SiblingSeg(Siblings(tokens, n - 1), tokens[n].name),
               last |-> NoTag])
  ELSE IF tokens[n].k = "close"
  THEN [SubSeq(Siblings(tokens, n - 1), 1, Len(Siblings(tokens, n - 1)) - 1)
          EXCEPT ![Len(Siblings(tokens, n - 1)) - 1].last =
                   Siblings(tokens, n - 1)[Len(Siblings(tokens, n - 1))].seg]
  ELSE Siblings(tokens, n - 1)

\* C21: the segment processXML() gives a start tag has the index of the
\* sibling closed last under the same parent plus one when that sibling has
\* the tag's name, and 1 otherwise: the current path is that of the open
\* elements numbered so.
C21_IndexFromSiblingOnly ==
  resolver # <<>> =>
    resolver.currentPath =
      [i \in 1..(Len(Siblings(resolver.xml.tokens, resolver.pos - 1)) - 1) |->
         Siblings(resolver.xml.tokens, resolver.pos - 1)[i + 1].seg]

\* the column of the last '<' of lineText before column col, 0 without one
NearestTagStart(lineText, col) ==
  IF {i \in 0..Min(col - 1, Len(lineText) - 1) : lineText[i + 1] = "<"} = {}
  THEN 0
  ELSE CHOOSE i \in {j \in 0..Min(col - 1, Len(lineText) - 1) :
                       lineText[j + 1] = "<"} :
         \A k \in {j \in 0..Min(col - 1, Len(lineText) - 1) :
                     lineText[j + 1] = "<"} : k <= i

RECURSIVE AttrErrors(_)
AttrErrors(attrs) ==
  IF attrs = <<>> THEN 0
  ELSE Head(attrs).eName + Head(attrs).eValue + AttrErrors(Tail(attrs))

\* the errors the automaton reports for the events of a token
ErrorsOf(tok) ==
  IF tok.k = "open" THEN tok.eEnter + AttrErrors(tok.attrs) + tok.eLeave
  ELSE IF tok.k = "close" THEN tok.eEnd
  ELSE 0

\* the pass ends at token i: the tokenizer fails or the doctype is rejected
EndsAt(text, i) ==
  \/ text.tokens[i].k = "fail"
  \/ /\ text.tokens[i].k = "doctype"
     /\ \E j \in DOMAIN text.tokens[i].items :
          Offending(text.tokens[i].items, j)

\* one diagnostic for each automaton error of the text, in the order of the
\* tokens, on the token's line, from the nearest '<' of that line to the
\* tokenizer's column
RECURSIVE ExpectedRanges(_, _)
ExpectedRanges(text, i) ==
  IF i > Len(text.tokens) THEN <<>>
  ELSE IF EndsAt(text, i) THEN <<>>
  ELSE PushN(<<>>,
             Diagnostic(text.tokens[i].line - 1,
                        NearestTagStart(text.lines[text.tokens[i].line],
                                        text.tokens[i].col),
                        text.tokens[i].line - 1, text.tokens[i].col,
                        "automaton"),
             ErrorsOf(text.tokens[i]))
         \o ExpectedRanges(text, i + 1)

IsAutomatonDiagnostic(d) == d.msg = "automaton"

\* C22: the automaton diagnostics of a run are, in the order of the events,
\* one per automaton error, each on the tokenizer's line, ending at the
\* tokenizer's column and starting at the nearest '<' before it on that line
\* (column 0 without one), so that no range starts after its end.
C22_RangesFromNearestTagStart ==
  \A r \in RunIds :
    Scheduled(r) /\ runs[r].tree # Undef =>
      /\ SelectSeq(runs[r].diagnostics, IsAutomatonDiagnostic) =
           ExpectedRanges(Texts[runs[r].xmlSource], 1)
      /\ \A i \in DOMAIN runs[r].diagnostics :
           /\ runs[r].diagnostics[i].sl = runs[r].diagnostics[i].el
           /\ runs[r].diagnostics[i].sc <= runs[r].diagnostics[i].ec

\* the same for one parse() call whose document has the text it parses
RangesOfUnchangedDocument ==
  parsePos >= 1 /\ (parseState.thrown # NoThrow \/ Traversed) =>
    SelectSeq(parseState.diagnostics, IsAutomatonDiagnostic) =
      ExpectedRanges(parseInput, 1)
====
